---- MODULE Spec2Model ----
(***************************************************************************)
(* The file-record store of graph-annotaor: src/src/file-upload/index.js   *)
(* (uploadFile, fetchFiles, getKeys, fetchFileByName) over an IndexedDB    *)
(* database, called from the handlers of src/src/index.js.                 *)
(*                                                                         *)
(* Strings are sequences of one-character strings, so that the regular     *)
(* expressions, toLowerCase, includes and the key order of the object      *)
(* store are computed character by character.                              *)
(***************************************************************************)
EXTENDS Integers, Sequences, FiniteSets, TLC

(***************************************************************************)
(* Bounds of the model.                                                    *)
(***************************************************************************)
\* uploadFile is not called once the records stored and the uploads under
\* way are this many
MaxStore == 3
\* fetchFiles is called with offset in -1..MaxOffset
MaxOffset == 1
\* fetchFiles is called with limit in 0..MaxLimit
MaxLimit == 2

(***************************************************************************)
(* Characters and strings.                                                 *)
(***************************************************************************)
LF == "\n"
CR == "\r"

\* UTF-16 code units of the characters the model uses
CharCode(c) ==
  CASE c = LF  -> 10
    [] c = CR  -> 13
    [] c = "," -> 44
    [] c = "-" -> 45
    [] c = "." -> 46
    [] c = "4" -> 52
    [] c = "A" -> 65
    [] c = "B" -> 66
    [] c = "C" -> 67
    [] c = "S" -> 83
    [] c = "V" -> 86
    [] c = "a" -> 97
    [] c = "b" -> 98
    [] c = "c" -> 99
    [] c = "f" -> 102
    [] c = "i" -> 105
    [] c = "s" -> 115
    [] c = "t" -> 116
    [] c = "v" -> 118
    [] c = "x" -> 120
    [] c = "y" -> 121
    [] c = "z" -> 122

\* String.prototype.toLowerCase, one character
LowerChar(c) ==
  CASE c = "A" -> "a"
    [] c = "B" -> "b"
    [] c = "C" -> "c"
    [] c = "S" -> "s"
    [] c = "V" -> "v"
    [] OTHER   -> c

toLowerCase(s) == [i \in 1..Len(s) |-> LowerChar(s[i])]

\* String.prototype.includes: sub occurs in s as a contiguous substring
includes(s, sub) ==
  \E i \in 1..(Len(s) + 1) :
    /\ i + Len(sub) - 1 <= Len(s)
    /\ \A j \in 1..Len(sub) : s[i + j - 1] = sub[j]

\* String.prototype.substring(from, to) for 0 <= from <= to, 0-based, to exclusive
substring(s, from, to) ==
  LET lo == IF from > Len(s) THEN Len(s) ELSE from
      hi == IF to > Len(s) THEN Len(s) ELSE to
  IN  [i \in 1..(hi - lo) |-> s[lo + i]]

\* the order of IndexedDB string keys: code unit by code unit, a proper
\* prefix before the longer string
RECURSIVE KeyLess(_, _)
KeyLess(a, b) ==
  IF b = <<>> THEN FALSE
  ELSE IF a = <<>> THEN TRUE
  ELSE IF CharCode(Head(a)) < CharCode(Head(b)) THEN TRUE
  ELSE IF CharCode(Head(a)) > CharCode(Head(b)) THEN FALSE
  ELSE KeyLess(Tail(a), Tail(b))

(***************************************************************************)
(* The validations of uploadFile.                                          *)
(***************************************************************************)
\* 200 * 1024 * 1024
MaxFileSize == 200 * 1024 * 1024

\* the line terminators of the model's alphabet ('.' matches neither, and
\* with the m flag ^ and $ match next to either)
IsLineTerminator(c) == c \in {LF, CR}

\* /\.(csv)$/i.test(name)
ExtensionTest(name) ==
  /\ Len(name) >= 4
  /\ toLowerCase(substring(name, Len(name) - 4, Len(name))) = <<".", "c", "s", "v">>

\* s[from..to] is matched by (?:\r?\n|.)* : every LF is taken by \r?\n, every
\* CR must be followed by LF, any other character is taken by '.'
TailMatches(s, from, to) ==
  \A i \in from..to :
    (s[i] = CR) => (i < to /\ s[i + 1] = LF)

\* /^.+,[^,]+(?:\r?\n|.)*$/gm.test(content): a match starts at the start of
\* some line (i), takes one or more non-terminators (.+) up to a comma at j,
\* one or more non-commas up to k ([^,]+), any tail up to e, and ends at the
\* end of some line
FormatTest(content) ==
  \E i \in 1..Len(content) :
    /\ (i = 1 \/ IsLineTerminator(content[i - 1]))
    /\ \E j \in (i + 1)..Len(content) :
         /\ content[j] = ","
         /\ \A m \in i..(j - 1) : ~IsLineTerminator(content[m])
         /\ \E k \in (j + 1)..Len(content) :
              /\ \A m \in (j + 1)..k : content[m] # ","
              /\ \E e \in k..Len(content) :
                   /\ TailMatches(content, k + 1, e)
                   /\ (e = Len(content) \/ IsLineTerminator(content[e + 1]))

\* the absent file (!file)
NoFile == [null |-> TRUE]

\* the checks with the extension tested before the size
SyncValidationExtFirst(f) ==
  IF f = NoFile THEN "No file selected"
  ELSE IF ~ExtensionTest(f.name) THEN "Invalid file extension"
  ELSE IF f.size > MaxFileSize THEN "File size exceeds 200 MB"
  ELSE ""

\* the checks of uploadFile that run before readFile, in the code's order;
\* "" when all pass
SyncValidation(f) ==
  IF f = NoFile THEN "No file selected"
  ELSE IF f.size > MaxFileSize THEN "File size exceeds 200 MB"
  ELSE IF ~ExtensionTest(f.name) THEN "Invalid file extension"
  ELSE ""

\* the check of uploadFile that runs on the content readFile delivered
ContentValidation(f) ==
  IF ~FormatTest(f.content) THEN "Invalid file format" ELSE ""

(***************************************************************************)
(* Math.random().toString(36).substring(2, 5)                               *)
(***************************************************************************)
\* the values Math.random() returns in the model, each given by the digits
\* of its base-36 fraction: 0.5 is "0.i", the other is "0.4fzy"
RandomValues == { <<"i">>, <<"4", "f", "z", "y">> }

\* Number.prototype.toString(36) of a value in [0, 1) with fraction digits r
toString36(r) == IF r = <<>> THEN <<"0">> ELSE <<"0", ".">> \o r

\* the suffix uploadFile appends after "-"
randomString(r) == substring(toString36(r), 2, 5)

(***************************************************************************)
(* The files the model uploads and the arguments it queries with.          *)
(***************************************************************************)
NameA == <<"a", ".", "c", "s", "v">>
NameB == <<"B", ".", "C", "S", "V">>
NameT == <<"c", ".", "t", "x", "t">>

CsvTwoLines == <<"a", ",", "b", LF, "a", ",", "b">>
CsvOneLine  == <<"a", ",", "b">>
CsvMixed    == <<"a", ",", "b", LF, "a", "b">>
NoComma     == <<"a", "b">>

File(n, sz, c) ==
  [name |-> n, size |-> sz, type |-> "text/csv", lastModified |-> sz, content |-> c]

Files ==
  { NoFile,
    File(NameA, 41, CsvTwoLines),
    File(NameA, MaxFileSize, CsvOneLine),
    File(NameB, 55, CsvMixed),
    File(NameB, 41, NoComma),
    File(NameA, MaxFileSize + 1, NoComma),
    File(NameT, MaxFileSize + 1, NoComma),
    File(NameT, 41, NoComma),
    File(NameT, 41, CsvOneLine) }

\* searchQuery: empty, one matching the a.csv names only by ignoring case,
\* one matching nothing
SearchQueries == { <<>>, <<"A">>, <<"z", "z">> }

\* <<sortField, sortOrder>>: no sortField (false, with the default order),
\* and a numeric field in either order
SortSettings == { <<"", "asc">>, <<"size", "asc">>, <<"size", "desc">> }

\* the names fetchFileByName is called with (empty is the absent name)
LookupNames == { <<>>, NameA, NameB, NameA \o <<"-", "i">> }

\* the concurrent callers: the handlers of src/src/index.js may overlap
Callers == { "c1", "c2" }

(***************************************************************************)
(* The database: version 0 is "does not exist".  store is the object       *)
(* store, a sequence of [key, value] in primary-key order.                 *)
(***************************************************************************)
VARIABLES
  dbVersion,        \* version of the database "raw-data", 0 before creation
  hasObjectStore,   \* db.objectStoreNames.contains("csv-store")
  hasNameIndex,     \* store.indexNames.contains("nameIndex")
  store,            \* the records, in primary-key order
  txQueue,          \* callers with a live transaction, in creation order
  pc,               \* where each caller is in its call
  file,             \* uploadFile: its file parameter
  upload,           \* uploadFile: the upload object it builds
  name,             \* fetchFileByName: its name parameter
  ret               \* what the last step returned to its caller, if anything

vars == <<dbVersion, hasObjectStore, hasNameIndex, store, txQueue, pc, file, upload, name, ret>>
dbVars == <<dbVersion, hasObjectStore, hasNameIndex, store>>

\* dbVersion of src/src/index.js
DbVersion == 1

Undefined == [undefined |-> TRUE]
Null == [isNull |-> TRUE]
NoRet == [op |-> "", caller |-> "", error |-> "", value |-> Undefined, list |-> <<>>, args |-> Undefined]

Keys(st) == { st[i].key : i \in 1..Len(st) }

\* IDBObjectStore.get(key): the value stored under key, or undefined
StoreGet(st, k) ==
  IF k \in Keys(st)
  THEN (CHOOSE e \in { st[i] : i \in 1..Len(st) } : e.key = k).value
  ELSE Undefined

\* IDBIndex.get(n) on nameIndex: the first record whose name is n, or undefined
IndexGet(st, n) ==
  LET hits == { i \in 1..Len(st) : st[i].value.name = n }
  IN  IF hits = {} THEN Undefined
      ELSE st[CHOOSE i \in hits : \A j \in hits : i <= j].value

\* a store whose add never fails (put-like, no constraint checked)
AddFailsNever(st, idx, value, k) == FALSE

\* IDBObjectStore.add(value, key) fails with ConstraintError when the key is
\* taken, or when the unique index already holds the value's name
AddFails(st, idx, value, k) ==
  \/ k \in Keys(st)
  \/ idx /\ \E i \in 1..Len(st) : st[i].value.name = value.name

\* an add under the lowercased key: add(upload, upload.name.toLowerCase())
StoreAddLowerKey(st, value, k) ==
  LET lk == toLowerCase(k)
      before == SelectSeq(st, LAMBDA e : KeyLess(e.key, lk))
      after  == SelectSeq(st, LAMBDA e : ~KeyLess(e.key, lk))
  IN  before \o <<[key |-> lk, value |-> value]>> \o after

\* a write that replaces the content of the store by the one new record
StorePutSingle(st, value, k) == <<[key |-> k, value |-> value]>>

\* the store after a successful add: the record goes to its place in key order
StoreAdd(st, value, k) ==
  LET before == SelectSeq(st, LAMBDA e : KeyLess(e.key, k))
      after  == SelectSeq(st, LAMBDA e : ~KeyLess(e.key, k))
  IN  before \o <<[key |-> k, value |-> value]>> \o after

\* openDB(dbName, dbVersion, {upgrade}): the upgrade callback runs only when
\* the database is older than the requested version.  upgrade is "full"
\* (uploadFile: store and nameIndex), "storeOnly" (fetchFileByName) or
\* "none" (fetchFiles, getKeys)
openDB(upgrade) ==
  IF dbVersion < DbVersion
  THEN /\ dbVersion' = DbVersion
       /\ hasObjectStore' = (upgrade \in {"full", "storeOnly"})
       /\ hasNameIndex' = (upgrade = "full")
  ELSE UNCHANGED <<dbVersion, hasObjectStore, hasNameIndex>>

(***************************************************************************)
(* The query engine: filterFiles, sortFiles, paginateFiles.                *)
(***************************************************************************)
\* a filter that keeps every record
MatchesAll(rec, searchQuery) == TRUE

\* the test of filterFiles on one record
Matches(rec, searchQuery) ==
  \/ searchQuery = <<>>
  \/ includes(toLowerCase(rec.name), toLowerCase(searchQuery))

\* the while loop of filterFiles; pos is the cursor (past the end of st when
\* the cursor is null), count the records visited, items the records kept
RECURSIVE filterLoop(_, _, _, _, _, _)
filterLoop(st, pos, searchQuery, limit, count, items) ==
  IF pos <= Len(st) /\ count < limit
  THEN filterLoop(st, pos + 1, searchQuery, limit, count + 1,
                  IF Matches(st[pos].value, searchQuery)
                  THEN Append(items, st[pos].value) ELSE items)
  ELSE items

\* filterFiles(cursor, searchQuery, limit) on a cursor createCursor opened on st
filterFiles(st, searchQuery, limit) == filterLoop(st, 1, searchQuery, limit, 0, <<>>)

\* a loop that tests count <= limit: one cursor step too many
RECURSIVE cursorStepsOffByOne(_, _, _, _)
cursorStepsOffByOne(st, pos, limit, count) ==
  IF pos <= Len(st) /\ count <= limit
  THEN cursorStepsOffByOne(st, pos + 1, limit, count + 1)
  ELSE count

\* the value of count when the while loop of filterFiles ends: the number of
\* times cursor.continue() was called, each call moving the cursor one
\* record on (to null after the last record)
RECURSIVE cursorSteps(_, _, _, _)
cursorSteps(st, pos, limit, count) ==
  IF pos <= Len(st) /\ count < limit
  THEN cursorSteps(st, pos + 1, limit, count + 1)
  ELSE count

\* valA < valB of sortFiles for the values of sortField: numbers compare as
\* numbers, names as strings; a field no record has is undefined on both
\* sides and undefined < undefined is false
ValueLess(sortField, fileA, fileB) ==
  CASE sortField = "size" -> fileA.size < fileB.size
    [] sortField = "lastModified" -> fileA.lastModified < fileB.lastModified
    [] sortField = "annotationCount" -> fileA.annotationCount < fileB.annotationCount
    [] sortField = "name" -> KeyLess(fileA.name, fileB.name)
    [] OTHER -> FALSE

\* a comparator that ignores sortOrder and always compares ascending
compareAscOnly(fileA, fileB, sortField, sortOrder) ==
  IF ValueLess(sortField, fileA, fileB) THEN -1
  ELSE IF ValueLess(sortField, fileB, fileA) THEN 1 ELSE 0

\* the comparator sortFiles passes to Array.prototype.sort
compare(fileA, fileB, sortField, sortOrder) ==
  IF sortOrder = "asc"
  THEN IF ValueLess(sortField, fileA, fileB) THEN -1
       ELSE IF ValueLess(sortField, fileB, fileA) THEN 1 ELSE 0
  ELSE IF ValueLess(sortField, fileB, fileA) THEN -1
       ELSE IF ValueLess(sortField, fileA, fileB) THEN 1 ELSE 0

\* an insertion that puts x before the elements equal to it: not stable
RECURSIVE insertSortedUnstable(_, _, _, _)
insertSortedUnstable(sorted, x, sortField, sortOrder) ==
  IF sorted = <<>> THEN <<x>>
  ELSE IF compare(sorted[Len(sorted)], x, sortField, sortOrder) < 0
       THEN Append(sorted, x)
       ELSE Append(insertSortedUnstable(SubSeq(sorted, 1, Len(sorted) - 1), x, sortField, sortOrder),
                   sorted[Len(sorted)])

\* x goes after the last element of the sorted prefix that is not after it
RECURSIVE insertSorted(_, _, _, _)
insertSorted(sorted, x, sortField, sortOrder) ==
  IF sorted = <<>> THEN <<x>>
  ELSE IF compare(sorted[Len(sorted)], x, sortField, sortOrder) <= 0
       THEN Append(sorted, x)
       ELSE Append(insertSorted(SubSeq(sorted, 1, Len(sorted) - 1), x, sortField, sortOrder),
                   sorted[Len(sorted)])

\* Array.prototype.sort is stable: files.sort(comparator) as an insertion sort
RECURSIVE sortFiles(_, _, _)
sortFiles(files, sortField, sortOrder) ==
  IF files = <<>> THEN <<>>
  ELSE insertSorted(sortFiles(SubSeq(files, 1, Len(files) - 1), sortField, sortOrder),
                    files[Len(files)], sortField, sortOrder)

\* a pagination that never skips: the slice starts at 0 whatever the offset
paginateFilesNoSkip(files, offset, limit) ==
  LET endIndex == IF limit > Len(files) THEN Len(files) ELSE limit
  IN  SubSeq(files, 1, endIndex)

\* a pagination without the clamp: Array.prototype.slice counts a negative
\* start from the end of the array
paginateFilesNoClamp(files, offset, limit) ==
  LET len == Len(files)
      endIndex == IF offset + limit > len THEN len ELSE offset + limit
      from == IF offset < 0
              THEN (IF len + offset < 0 THEN 0 ELSE len + offset)
              ELSE (IF offset > len THEN len ELSE offset)
      to == IF endIndex < 0
            THEN (IF len + endIndex < 0 THEN 0 ELSE len + endIndex)
            ELSE endIndex
  IN  SubSeq(files, from + 1, to)

\* paginateFiles(files, offset, limit), for limit >= 0
paginateFiles(files, offset, limit) ==
  LET startIndex == IF offset < 0 THEN 0 ELSE offset
      endIndex == IF startIndex + limit > Len(files) THEN Len(files) ELSE startIndex + limit
  IN  SubSeq(files, startIndex + 1, endIndex)

\* what fetchFiles returns once its cursor is open on st
fetchResult(st, searchQuery, sortField, sortOrder, offset, limit) ==
  LET files == filterFiles(st, searchQuery, limit + offset)
      sorted == IF sortField # "" THEN sortFiles(files, sortField, sortOrder) ELSE files
  IN  paginateFiles(sorted, offset, limit)

(***************************************************************************)
(* The calls.  Every await is a step of its own; a step that completes a   *)
(* call leaves what it delivered to the caller in ret, any other step      *)
(* clears ret.                                                             *)
(***************************************************************************)
Init ==
  /\ dbVersion = 0
  /\ hasObjectStore = FALSE
  /\ hasNameIndex = FALSE
  /\ store = <<>>
  /\ txQueue = <<>>
  /\ pc = [p \in Callers |-> "idle"]
  /\ file = [p \in Callers |-> NoFile]
  /\ upload = [p \in Callers |-> Undefined]
  /\ name = [p \in Callers |-> <<>>]
  /\ ret = NoRet

Rejected(o, p, msg, a) == [NoRet EXCEPT !.op = o, !.caller = p, !.error = msg, !.args = a]
Resolved(o, p, v, l, a) ==
  [NoRet EXCEPT !.op = o, !.caller = p, !.value = v, !.list = l, !.args = a]

UploadPcs == { "readFile", "uploadOpen", "uploadGet", "uploadAdd" }
InFlightUploads == Cardinality({ p \in Callers : pc[p] \in UploadPcs })

\* uploadFile up to its first await: the checks on file, size and extension
UploadCall(p, f) ==
  /\ pc[p] = "idle"
  /\ Len(store) + InFlightUploads < MaxStore
  /\ IF SyncValidation(f) # ""
     THEN /\ ret' = Rejected("uploadFile", p, SyncValidation(f), f)
          /\ UNCHANGED <<pc, file>>
     ELSE /\ pc' = [pc EXCEPT ![p] = "readFile"]
          /\ file' = [file EXCEPT ![p] = f]
          /\ ret' = NoRet
  /\ UNCHANGED <<dbVars, txQueue, upload, name>>

\* an uploadFile that opens the database before it checks the format
UploadReadOpensFirst(p) ==
  /\ pc[p] = "readFile"
  /\ openDB("full")
  /\ IF ContentValidation(file[p]) # ""
     THEN /\ ret' = Rejected("uploadFile", p, ContentValidation(file[p]), file[p])
          /\ pc' = [pc EXCEPT ![p] = "idle"]
          /\ file' = [file EXCEPT ![p] = NoFile]
     ELSE /\ pc' = [pc EXCEPT ![p] = "uploadOpen"]
          /\ ret' = NoRet
          /\ UNCHANGED file
  /\ UNCHANGED <<store, txQueue, upload, name>>

\* readFile resolved: the format check, then the call of openDB
UploadRead(p) ==
  /\ pc[p] = "readFile"
  /\ IF ContentValidation(file[p]) # ""
     THEN /\ ret' = Rejected("uploadFile", p, ContentValidation(file[p]), file[p])
          /\ pc' = [pc EXCEPT ![p] = "idle"]
          /\ file' = [file EXCEPT ![p] = NoFile]
     ELSE /\ pc' = [pc EXCEPT ![p] = "uploadOpen"]
          /\ ret' = NoRet
          /\ UNCHANGED file
  /\ UNCHANGED <<dbVars, txQueue, upload, name>>

\* openDB resolved (its upgrade creates the store and nameIndex): the upload
\* object is built, the readwrite transaction created; db.transaction throws
\* NotFoundError when the database has no such object store
UploadOpen(p) ==
  /\ pc[p] = "uploadOpen"
  /\ openDB("full")
  /\ IF hasObjectStore'
     THEN /\ upload' = [upload EXCEPT ![p] =
                 [name |-> file[p].name, size |-> file[p].size, type |-> file[p].type,
                  lastModified |-> file[p].lastModified, data |-> file[p].content,
                  annotationCount |-> 0]]
          /\ txQueue' = Append(txQueue, p)
          /\ pc' = [pc EXCEPT ![p] = "uploadGet"]
          /\ ret' = NoRet
          /\ UNCHANGED file
     ELSE /\ ret' = Rejected("uploadFile", p, "NotFoundError", file[p])
          /\ pc' = [pc EXCEPT ![p] = "idle"]
          /\ file' = [file EXCEPT ![p] = NoFile]
          /\ UNCHANGED <<upload, txQueue>>
  /\ UNCHANGED <<store, name>>

\* a get that runs whatever transactions are live: uploads whose checks and
\* writes are not serialised by the store
UploadGetUnserialized(p) ==
  /\ pc[p] = "uploadGet"
  /\ IF StoreGet(store, file[p].name) # Undefined
     THEN \E r \in RandomValues :
            upload' = [upload EXCEPT ![p].name = file[p].name \o <<"-">> \o randomString(r)]
     ELSE UNCHANGED upload
  /\ pc' = [pc EXCEPT ![p] = "uploadAdd"]
  /\ ret' = NoRet
  /\ UNCHANGED <<dbVars, txQueue, file, name>>

\* uploadsStore.get(file.name) resolved, once the transaction runs: a found
\* record makes the upload take a name with a random suffix
UploadGet(p) ==
  /\ pc[p] = "uploadGet"
  /\ txQueue # <<>> /\ Head(txQueue) = p
  /\ IF StoreGet(store, file[p].name) # Undefined
     THEN \E r \in RandomValues :
            upload' = [upload EXCEPT ![p].name = file[p].name \o <<"-">> \o randomString(r)]
     ELSE UNCHANGED upload
  /\ pc' = [pc EXCEPT ![p] = "uploadAdd"]
  /\ ret' = NoRet
  /\ UNCHANGED <<dbVars, txQueue, file, name>>

\* uploadsStore.add(upload, upload.name) settled: the record is stored and
\* returned, or the add fails and the call rejects
UploadAdd(p) ==
  /\ pc[p] = "uploadAdd"
  /\ IF AddFails(store, hasNameIndex, upload[p], upload[p].name)
     THEN /\ ret' = Rejected("uploadFile", p, "ConstraintError", file[p])
          /\ UNCHANGED store
     ELSE /\ store' = StoreAdd(store, upload[p], upload[p].name)
          /\ ret' = Resolved("uploadFile", p, upload[p], <<>>, file[p])
  /\ txQueue' = Tail(txQueue)
  /\ pc' = [pc EXCEPT ![p] = "idle"]
  /\ file' = [file EXCEPT ![p] = NoFile]
  /\ upload' = [upload EXCEPT ![p] = Undefined]
  /\ UNCHANGED <<dbVersion, hasObjectStore, hasNameIndex, name>>

\* fetchFiles up to its first await: the call of openDB without upgrade
FetchCall(p) ==
  /\ pc[p] = "idle"
  /\ pc' = [pc EXCEPT ![p] = "fetchOpen"]
  /\ ret' = NoRet
  /\ UNCHANGED <<dbVars, txQueue, file, upload, name>>

\* openDB resolved: createCursor creates the readonly transaction, which
\* throws NotFoundError when the database has no such object store
FetchOpen(p) ==
  /\ pc[p] = "fetchOpen"
  /\ openDB("none")
  /\ IF hasObjectStore'
     THEN /\ txQueue' = Append(txQueue, p)
          /\ pc' = [pc EXCEPT ![p] = "cursor"]
          /\ ret' = NoRet
     ELSE /\ ret' = Rejected("fetchFiles", p, "NotFoundError", Undefined)
          /\ pc' = [pc EXCEPT ![p] = "idle"]
          /\ UNCHANGED txQueue
  /\ UNCHANGED <<store, file, upload, name>>

\* the cursor walk of filterFiles inside its readonly transaction, which
\* sees one state of the store, then the sort and the pagination
FetchScan(p, searchQuery, sortField, sortOrder, offset, limit) ==
  /\ pc[p] = "cursor"
  /\ txQueue # <<>> /\ Head(txQueue) = p
  /\ ret' = Resolved("fetchFiles", p, Undefined,
                     fetchResult(store, searchQuery, sortField, sortOrder, offset, limit),
                     [searchQuery |-> searchQuery, sortField |-> sortField,
                      sortOrder |-> sortOrder, offset |-> offset, limit |-> limit])
  /\ txQueue' = Tail(txQueue)
  /\ pc' = [pc EXCEPT ![p] = "idle"]
  /\ UNCHANGED <<dbVars, file, upload, name>>

\* getKeys up to the call of openDB without upgrade
GetKeysCall(p) ==
  /\ pc[p] = "idle"
  /\ pc' = [pc EXCEPT ![p] = "keysOpen"]
  /\ ret' = NoRet
  /\ UNCHANGED <<dbVars, txQueue, file, upload, name>>

\* getKeys without the objectStoreNames check: db.transaction throws
\* NotFoundError when the object store does not exist
GetKeysOpenNoGuard(p) ==
  /\ pc[p] = "keysOpen"
  /\ openDB("none")
  /\ IF hasObjectStore'
     THEN /\ txQueue' = Append(txQueue, p)
          /\ pc' = [pc EXCEPT ![p] = "getAllKeys"]
          /\ ret' = NoRet
     ELSE /\ ret' = Rejected("getKeys", p, "NotFoundError", Undefined)
          /\ pc' = [pc EXCEPT ![p] = "idle"]
          /\ UNCHANGED txQueue
  /\ UNCHANGED <<store, file, upload, name>>

\* openDB resolved: [] when the object store does not exist, else getAllKeys
\* is requested in a readonly transaction
GetKeysOpen(p) ==
  /\ pc[p] = "keysOpen"
  /\ openDB("none")
  /\ IF hasObjectStore'
     THEN /\ txQueue' = Append(txQueue, p)
          /\ pc' = [pc EXCEPT ![p] = "getAllKeys"]
          /\ ret' = NoRet
     ELSE /\ ret' = Resolved("getKeys", p, Undefined, <<>>, Undefined)
          /\ pc' = [pc EXCEPT ![p] = "idle"]
          /\ UNCHANGED txQueue
  /\ UNCHANGED <<store, file, upload, name>>

\* store.getAllKeys() resolved
GetAllKeys(p) ==
  /\ pc[p] = "getAllKeys"
  /\ txQueue # <<>> /\ Head(txQueue) = p
  /\ ret' = Resolved("getKeys", p, Undefined, [i \in 1..Len(store) |-> store[i].key], Undefined)
  /\ txQueue' = Tail(txQueue)
  /\ pc' = [pc EXCEPT ![p] = "idle"]
  /\ UNCHANGED <<dbVars, file, upload, name>>

\* fetchFileByName up to its first await: undefined for an empty name, else
\* the call of openDB
NameCall(p, n) ==
  /\ pc[p] = "idle"
  /\ IF n = <<>>
     THEN /\ ret' = Resolved("fetchFileByName", p, Undefined, <<>>, [name |-> n])
          /\ UNCHANGED <<pc, name>>
     ELSE /\ pc' = [pc EXCEPT ![p] = "nameOpen"]
          /\ name' = [name EXCEPT ![p] = n]
          /\ ret' = NoRet
  /\ UNCHANGED <<dbVars, txQueue, file, upload>>

\* openDB resolved (its upgrade creates the object store only): the readonly
\* transaction and uploadsStore.index('nameIndex') throw NotFoundError when
\* the store or the index does not exist, else index.get(name) is requested
NameOpen(p) ==
  /\ pc[p] = "nameOpen"
  /\ openDB("storeOnly")
  /\ IF hasObjectStore' /\ hasNameIndex'
     THEN /\ txQueue' = Append(txQueue, p)
          /\ pc' = [pc EXCEPT ![p] = "indexGet"]
          /\ ret' = NoRet
          /\ UNCHANGED name
     ELSE /\ ret' = Rejected("fetchFileByName", p, "NotFoundError", [name |-> name[p]])
          /\ pc' = [pc EXCEPT ![p] = "idle"]
          /\ name' = [name EXCEPT ![p] = <<>>]
          /\ UNCHANGED txQueue
  /\ UNCHANGED <<store, file, upload>>

\* index.get(name) resolved: the record, or null after logging 'File not found'
NameGet(p) ==
  /\ pc[p] = "indexGet"
  /\ txQueue # <<>> /\ Head(txQueue) = p
  /\ ret' = Resolved("fetchFileByName", p,
                     IF IndexGet(store, name[p]) # Undefined
                     THEN IndexGet(store, name[p]) ELSE Null,
                     <<>>, [name |-> name[p]])
  /\ txQueue' = Tail(txQueue)
  /\ pc' = [pc EXCEPT ![p] = "idle"]
  /\ name' = [name EXCEPT ![p] = <<>>]
  /\ UNCHANGED <<dbVars, file, upload>>

Next ==
  \E p \in Callers :
    \/ \E f \in Files : UploadCall(p, f)
    \/ UploadRead(p)
    \/ UploadOpen(p)
    \/ UploadGet(p)
    \/ UploadAdd(p)
    \/ FetchCall(p)
    \/ FetchOpen(p)
    \/ \E q \in SearchQueries, ss \in SortSettings,
          o \in (-1)..MaxOffset, l \in 0..MaxLimit :
         FetchScan(p, q, ss[1], ss[2], o, l)
    \/ GetKeysCall(p)
    \/ GetKeysOpen(p)
    \/ GetAllKeys(p)
    \/ \E n \in LookupNames : NameCall(p, n)
    \/ NameOpen(p)
    \/ NameGet(p)

Spec == Init /\ [][Next]_vars

(***************************************************************************)
(* Properties.                                                             *)
(***************************************************************************)
StoredNames(st) == { st[i].value.name : i \in 1..Len(st) }

\* the starts of the lines of c (a final LF ends the last line)
LineStarts(c) == { i \in 1..Len(c) : i = 1 \/ c[i - 1] = LF }
LineEnd(c, i) ==
  LET lfs == { e \in i..Len(c) : c[e] = LF }
  IN  IF lfs = {} THEN Len(c) ELSE (CHOOSE e \in lfs : \A x \in lfs : e <= x) - 1

\* every line of c has a comma and every value around its commas is non-empty
EveryLineCsv(c) ==
  /\ c # <<>>
  /\ \A i \in LineStarts(c) :
       LET e == LineEnd(c, i)
       IN  /\ e >= i
           /\ \E j \in i..e : c[j] = ","
           /\ c[i] # "," /\ c[e] # ","
           /\ \A j \in i..(e - 1) : ~(c[j] = "," /\ c[j + 1] = ",")

\* a file the upload contract accepts: at most 200 MiB, .csv, valid content
ValidFile(f) ==
  /\ f # NoFile
  /\ f.size <= MaxFileSize
  /\ ExtensionTest(f.name)
  /\ EveryLineCsv(f.content)

\* C1: in every reachable state, an uploadFile of a valid file whose name no
\* stored record has succeeds: the call returns a record with the file's
\* name and the store gains exactly that record.
C1_UploadOfValidFileSucceeds ==
  [][ (ret'.op = "uploadFile" /\ ValidFile(ret'.args)
         /\ ret'.args.name \notin StoredNames(store))
      => /\ ret'.error = ""
         /\ ret'.value.name = ret'.args.name
         /\ Len(store') = Len(store) + 1
         /\ \A i \in 1..Len(store) : \E j \in 1..Len(store') : store'[j] = store[i]
         /\ \E j \in 1..Len(store') : store'[j].value = ret'.value ]_vars

\* C2: the step that creates the database at its version leaves it with the
\* object store and nameIndex, and no step changes the schema afterwards.
C2_FirstOpenCreatesSchema ==
  [][ /\ (dbVersion' = DbVersion) => (hasObjectStore' /\ hasNameIndex')
      /\ (dbVersion = DbVersion) => UNCHANGED <<dbVersion, hasObjectStore, hasNameIndex>> ]_vars

\* C3: in every reachable state no two stored records have the same name.
C3_NamesUnique ==
  \A i, j \in 1..Len(store) :
    (store[i].value.name = store[j].value.name) => (i = j)

\* two records are stored and the last step stored one under a new name
C3_Witness ==
  /\ Len(store) >= 2
  /\ ret.op = "uploadFile" /\ ret.error = ""
  /\ ret.value.name # ret.args.name

Base36Chars ==
  { "0", "1", "2", "3", "4", "5", "6", "7", "8", "9",
    "a", "b", "c", "d", "e", "f", "g", "h", "i", "j", "k", "l", "m",
    "n", "o", "p", "q", "r", "s", "t", "u", "v", "w", "x", "y", "z" }

\* n is original, "-", and exactly three lowercase base-36 characters
HasThreeCharSuffix(n, original) ==
  /\ Len(n) = Len(original) + 4
  /\ SubSeq(n, 1, Len(original)) = original
  /\ n[Len(original) + 1] = "-"
  /\ \A i \in (Len(original) + 2)..Len(n) : n[i] \in Base36Chars

\* C4: an uploadFile of a valid file that finds a record with its original
\* name succeeds and stores the record under "<original>-XXX", XXX exactly
\* three lowercase base-36 characters, a name no stored record had.
C4_RenamedUploadSucceeds ==
  [][ (ret'.op = "uploadFile" /\ ValidFile(ret'.args)
         /\ ret'.args.name \in StoredNames(store))
      => /\ ret'.error = ""
         /\ HasThreeCharSuffix(ret'.value.name, ret'.args.name)
         /\ ret'.value.name \notin StoredNames(store)
         /\ ret'.value.name \in StoredNames(store') ]_vars

\* the message of the first check, in the contract's order missing-file,
\* oversized, bad-extension, bad-content, that f fails; "" when it fails none
FirstFailing(f) ==
  CASE f = NoFile -> "No file selected"
    [] f # NoFile /\ f.size > 200 * 1024 * 1024 -> "File size exceeds 200 MB"
    [] f # NoFile /\ f.size <= 200 * 1024 * 1024 /\ ~ExtensionTest(f.name)
         -> "Invalid file extension"
    [] f # NoFile /\ f.size <= 200 * 1024 * 1024 /\ ExtensionTest(f.name)
         /\ ~FormatTest(f.content) -> "Invalid file format"
    [] OTHER -> ""

\* C5: an uploadFile of a file that fails a validation rejects with the
\* message of the earliest failing check, and the rejecting step ends the
\* call (no retry) and changes nothing in the database.
C5_EarliestValidationWins ==
  [][ (ret'.op = "uploadFile" /\ FirstFailing(ret'.args) # "")
      => /\ ret'.error = FirstFailing(ret'.args)
         /\ pc'[ret'.caller] = "idle"
         /\ UNCHANGED dbVars ]_vars

\* an oversized file that also has a bad extension and bad content was
\* rejected as oversized
C5_Witness ==
  /\ ret.op = "uploadFile"
  /\ ret.error = "File size exceeds 200 MB"
  /\ ret.args # NoFile
  /\ ~ExtensionTest(ret.args.name)
  /\ ~FormatTest(ret.args.content)

\* every line of c has a comma with a non-empty value before it
EveryLineHasComma(c) ==
  /\ c # <<>>
  /\ \A i \in LineStarts(c) :
       \E j \in (i + 1)..LineEnd(c, i) : c[j] = ","

\* C6: a file passes the content check of uploadFile only when every line of
\* its content has a comma separating a non-empty value from the rest of the
\* line; any other file is rejected as 'Invalid file format'.
C6_ContentCheckIsPerLine ==
  /\ \A p \in Callers :
       pc[p] \in { "uploadOpen", "uploadGet", "uploadAdd" }
         => EveryLineHasComma(file[p].content)
  /\ (ret.op = "uploadFile" /\ SyncValidation(ret.args) = ""
        /\ ~EveryLineHasComma(ret.args.content))
       => ret.error = "Invalid file format"

StoreValues(st) == [i \in 1..Len(st) |-> st[i].value]

\* name contains query when the case of letters is ignored
ContainsIgnoringCase(n, query) ==
  \E i \in 0..(Len(n) - Len(query)) :
    \A j \in 1..Len(query) : LowerChar(n[i + j]) = LowerChar(query[j])

\* the records of st the query selects, in primary-key order
MatchingRecords(st, query) ==
  SelectSeq(StoreValues(st), LAMBDA r : query = <<>> \/ ContainsIgnoringCase(r.name, query))

\* C7: when the store holds at most offset + limit records matching the
\* query, fetchFiles filters, sorts and paginates all of them, however many
\* non-matching records precede them.
C7_ScanStopsOnMatchingCount ==
  (ret.op = "fetchFiles" /\ ret.error = ""
     /\ Len(MatchingRecords(store, ret.args.searchQuery)) <= ret.args.offset + ret.args.limit)
  => ret.list =
       paginateFiles(
         IF ret.args.sortField # ""
         THEN sortFiles(MatchingRecords(store, ret.args.searchQuery),
                        ret.args.sortField, ret.args.sortOrder)
         ELSE MatchingRecords(store, ret.args.searchQuery),
         ret.args.offset, ret.args.limit)

Min(a, b) == IF a < b THEN a ELSE b

\* C8: fetchFiles with an empty query and no sortField returns the stored
\* records at positions [offset, offset + limit) of the primary-key order,
\* clipped to the store size, for offset >= 0 and limit >= 0.
C8_EmptyQueryReturnsWindow ==
  (ret.op = "fetchFiles" /\ ret.error = ""
     /\ ret.args.searchQuery = <<>> /\ ret.args.sortField = ""
     /\ ret.args.offset >= 0 /\ ret.args.limit >= 0)
  => LET from == Min(ret.args.offset, Len(store))
         to == Min(ret.args.offset + ret.args.limit, Len(store))
     IN  /\ Len(ret.list) = to - from
         /\ \A i \in 1..(to - from) : ret.list[i] = store[from + i].value

\* a window strictly inside the store: a record skipped before it, one
\* returned, one left after it
C8_Witness ==
  /\ ret.op = "fetchFiles" /\ ret.error = ""
  /\ ret.args.searchQuery = <<>> /\ ret.args.sortField = ""
  /\ ret.args.offset = 1 /\ ret.args.limit = 1
  /\ Len(store) = 3
  /\ ret.list = <<store[2].value>>

\* C9: every record fetchFiles returns for a non-empty searchQuery has a
\* name containing the query, case ignored; so the result is empty when no
\* stored name contains it.
C9_ResultsMatchQuery ==
  (ret.op = "fetchFiles" /\ ret.error = "" /\ ret.args.searchQuery # <<>>)
  => /\ \A i \in 1..Len(ret.list) :
          ContainsIgnoringCase(ret.list[i].name, ret.args.searchQuery)
     /\ (\A n \in StoredNames(store) : ~ContainsIgnoringCase(n, ret.args.searchQuery))
          => ret.list = <<>>

\* a query in upper case returned a record with a lower-case name, from a
\* window that also held a record the query does not select
C9_Witness ==
  /\ ret.op = "fetchFiles" /\ ret.error = ""
  /\ ret.args.searchQuery = <<"A">>
  /\ ret.list # <<>>
  /\ ~ContainsIgnoringCase(store[1].value.name, <<"A">>)
  /\ ret.args.offset + ret.args.limit >= 2

Reverse(s) == [i \in 1..Len(s) |-> s[Len(s) + 1 - i]]

DistinctSizes(files) ==
  \A i, j \in 1..Len(files) : (files[i].size = files[j].size) => (i = j)

\* the windows filterFiles can hand to sortFiles in the current store
Windows ==
  { filterFiles(store, q, n) : q \in SearchQueries, n \in 0..(MaxOffset + MaxLimit) }

\* C10: for records with pairwise distinct sizes, sortFiles by size with
\* sortOrder 'asc' is the exact reversal of sortFiles with 'desc'.
C10_AscIsReverseOfDesc ==
  \A w \in Windows :
    DistinctSizes(w)
      => sortFiles(w, "size", "asc") = Reverse(sortFiles(w, "size", "desc"))

\* fetchFiles just sorted, by size, a window of three records of distinct
\* sizes that the cursor delivered neither ascending nor descending
C10_Witness ==
  /\ ret.op = "fetchFiles" /\ ret.error = "" /\ ret.args.sortField = "size"
  /\ ret.args.offset + ret.args.limit >= 3
  /\ Len(store) = 3
  /\ DistinctSizes(StoreValues(store))
  /\ sortFiles(StoreValues(store), "size", "asc") # StoreValues(store)
  /\ sortFiles(StoreValues(store), "size", "desc") # StoreValues(store)

Max(a, b) == IF a > b THEN a ELSE b

\* C11: paginateFiles(files, offset, limit) is the slice
\* [max(offset, 0), max(offset, 0) + limit) of files clipped to its length:
\* in the input order, at most limit elements, and the same for a negative
\* offset as for offset 0.
C11_PaginateIsClampedSlice ==
  /\ \A w \in Windows, o \in (-1)..MaxOffset, l \in 0..MaxLimit :
       LET from == Min(Max(o, 0), Len(w))
           to == Min(Max(o, 0) + l, Len(w))
       IN  /\ paginateFiles(w, o, l) = [i \in 1..(to - from) |-> w[from + i]]
           /\ Len(paginateFiles(w, o, l)) <= l
           /\ (o < 0) => (paginateFiles(w, o, l) = paginateFiles(w, 0, l))
  /\ (ret.op = "fetchFiles" /\ ret.error = "") => (Len(ret.list) <= ret.args.limit)

\* fetchFiles paginated with a negative offset and returned a record, from a
\* store where a window of two records exists
C11_Witness ==
  /\ ret.op = "fetchFiles" /\ ret.error = ""
  /\ ret.args.offset < 0
  /\ ret.list # <<>>
  /\ Len(store) >= 2

\* C12: getKeys never fails; it returns the empty sequence when the object
\* store was never created, and otherwise the primary keys of the store in
\* key order, one per stored record.
C12_GetKeysListsKeys ==
  (ret.op = "getKeys")
  => /\ ret.error = ""
     /\ IF ~hasObjectStore
        THEN ret.list = <<>>
        ELSE /\ Len(ret.list) = Len(store)
             /\ \A i \in 1..Len(store) : ret.list[i] = store[i].key
             /\ \A i, j \in 1..Len(ret.list) : (i < j) => KeyLess(ret.list[i], ret.list[j])

\* getKeys returned on a database that exists without its object store
C12_Witness ==
  /\ ret.op = "getKeys" /\ ret.error = ""
  /\ dbVersion = DbVersion
  /\ ~hasObjectStore
  /\ ret.list = <<>>

\* C13: fetchFileByName with a name that no stored record has returns the
\* not-found result (null, or undefined for the empty name) and never throws,
\* in every reachable state.
C13_LookupMissIsNotFound ==
  (ret.op = "fetchFileByName" /\ ret.args.name \notin StoredNames(store))
  => /\ ret.error = ""
     /\ ret.value \in { Null, Undefined }

\* C14: no step removes or changes a stored record, only a successful
\* uploadFile adds one, and every stored record has annotationCount 0.
C14_RecordsAreNeverChanged ==
  [][ /\ \A i \in 1..Len(store) : \E j \in 1..Len(store') : store'[j] = store[i]
      /\ (store' # store)
           => /\ ret'.op = "uploadFile" /\ ret'.error = ""
              /\ Len(store') = Len(store) + 1
      /\ \A j \in 1..Len(store') : store'[j].value.annotationCount = 0 ]_vars

\* an upload of a name already stored completed: the older record is still
\* stored under the original name, next to the new one
C14_Witness ==
  /\ ret.op = "uploadFile" /\ ret.error = ""
  /\ ret.value.name # ret.args.name
  /\ StoreGet(store, ret.args.name) # Undefined
  /\ StoreGet(store, ret.value.name) = ret.value
  /\ StoreGet(store, ret.args.name).annotationCount = 0

\* p has observed its name as absent and not yet written; q uploads the same
\* name and waits for the result of its own check
SecondUploadWaits(p, q) ==
  /\ p # q
  /\ pc[p] = "uploadAdd" /\ upload[p].name = file[p].name
  /\ pc[q] = "uploadGet" /\ file[q].name = file[p].name

\* C15, as claimed: the check and the write of uploadFile are not atomic, so
\* once one upload has observed its name as absent, the check of a concurrent
\* upload of the same name can run before the first one writes (and then
\* observes the name as absent too).
C15_SecondCheckCanRunBeforeFirstWrite ==
  \A p, q \in Callers : SecondUploadWaits(p, q) => ENABLED UploadGet(q)

\* C15, amended: the check and the write run in one readwrite transaction
\* and the store runs such transactions one at a time.  At most one upload
\* is between its check and its write, a name observed as absent is still
\* absent when it is written, and the only add that fails is one under a
\* suffixed name, after which the call has ended without a retry.
C15_CheckAndWriteAreSerialized ==
  /\ \A p, q \in Callers : (pc[p] = "uploadAdd" /\ pc[q] = "uploadAdd") => (p = q)
  /\ \A p \in Callers :
       (pc[p] = "uploadAdd" /\ upload[p].name = file[p].name)
         => ~AddFails(store, hasNameIndex, upload[p], upload[p].name)
  /\ (ret.op = "uploadFile" /\ ret.error = "ConstraintError")
       => /\ ret.args.name \in Keys(store)
          /\ pc[ret.caller] = "idle"

\* two concurrent uploads of one name: the first between check and write,
\* the second with its transaction created and its check pending
C15_Witness ==
  \E p, q \in Callers : SecondUploadWaits(p, q) /\ file[p].name \notin Keys(store)

\* C16: fetchFiles with a negative offset returns what the same call with
\* offset 0 returns.
C16_NegativeOffsetIsZero ==
  (ret.op = "fetchFiles" /\ ret.error = "" /\ ret.args.offset < 0)
  => ret.list = fetchResult(store, ret.args.searchQuery, ret.args.sortField,
                            ret.args.sortOrder, 0, ret.args.limit)

\* a goes before b when sorting by size in the given order, records of equal
\* size in the order of their primary keys
GoesBefore(a, b, sortOrder) ==
  \/ sortOrder = "asc" /\ a.size < b.size
  \/ sortOrder # "asc" /\ a.size > b.size
  \/ a.size = b.size /\ KeyLess(a.name, b.name)

\* C17: with sortField "size", fetchFiles returns its records in
\* non-decreasing size for 'asc' and non-increasing size for 'desc', records
\* of equal size in primary-key order; the sort ranks the whole window that
\* filterFiles collected for offset + limit, and the offset is skipped after
\* it: the i-th record returned is the one of the window with exactly
\* max(offset, 0) + i - 1 records of the window going before it.
C17_SortedWindowThenSkip ==
  (ret.op = "fetchFiles" /\ ret.error = "" /\ ret.args.sortField = "size")
  => LET w == filterFiles(store, ret.args.searchQuery, ret.args.offset + ret.args.limit)
         start == Max(ret.args.offset, 0)
         n == Len(ret.list)
     IN  /\ n = Min(start + ret.args.limit, Len(w)) - Min(start, Len(w))
         /\ \A i \in 1..n :
              \E k \in 1..Len(w) :
                /\ w[k] = ret.list[i]
                /\ Cardinality({ m \in 1..Len(w) : GoesBefore(w[m], w[k], ret.args.sortOrder) })
                     = start + i - 1
         /\ \A i, j \in 1..n :
              (i < j) =>
                /\ (ret.args.sortOrder = "asc") => (ret.list[i].size <= ret.list[j].size)
                /\ (ret.args.sortOrder # "asc") => (ret.list[i].size >= ret.list[j].size)
                /\ (ret.list[i].size = ret.list[j].size)
                     => KeyLess(ret.list[i].name, ret.list[j].name)

\* a descending sort put the second of three stored records first, the skip
\* of one record dropped it, and the two records of equal size were returned
\* in key order, the first stored record among them
C17_Witness ==
  /\ ret.op = "fetchFiles" /\ ret.error = "" /\ ret.args.sortField = "size"
  /\ ret.args.sortOrder = "desc" /\ ret.args.offset = 1
  /\ Len(store) = 3
  /\ Len(ret.list) = 2
  /\ ret.list[1].size = ret.list[2].size
  /\ ret.list[1] = store[1].value
  /\ store[2].value.size > ret.list[1].size

\* C18: fetchFileByName of the name of a stored record (the name a successful
\* uploadFile returned, original or suffixed) returns that record.
C18_LookupReturnsUploadedRecord ==
  (ret.op = "fetchFileByName" /\ ret.args.name \in StoredNames(store))
  => /\ ret.error = ""
     /\ ret.value = StoreGet(store, ret.args.name)

ValidationMessages ==
  { "No file selected", "File size exceeds 200 MB", "Invalid file extension",
    "Invalid file format" }

\* C19: the step that rejects an uploadFile leaves the stored records as
\* they are, and the store changes only in the step that completes a
\* successful upload, so no step of a rejected call changes it; a validation
\* failure leaves the whole database untouched, and so do the steps of the
\* call before it (the checks run before openDB).
C19_RejectedUploadChangesNothing ==
  [][ /\ (ret'.op = "uploadFile" /\ ret'.error # "")
           => /\ store' = store
              /\ (ret'.error \in ValidationMessages) => UNCHANGED dbVars
      /\ (store' # store) => (ret'.op = "uploadFile" /\ ret'.error = "")
      /\ \A p \in Callers :
           (\/ pc[p] = "idle" /\ pc'[p] = "readFile"
            \/ pc[p] = "readFile" /\ pc'[p] # "readFile")
             => UNCHANGED dbVars ]_vars

\* an upload was rejected by a failed add (its suffixed name was taken) and
\* the two records stored before are the store
C19_Witness ==
  /\ ret.op = "uploadFile" /\ ret.error = "ConstraintError"
  /\ Len(store) = 2
  /\ ret.args.name \in Keys(store)

C21_ScanIsBounded ==
  (ret.op = "fetchFiles" /\ ret.error = "")
  => LET steps == cursorSteps(store, 1, ret.args.offset + ret.args.limit, 0)
     IN  /\ steps >= 0
         /\ steps <= Max(0, ret.args.offset + ret.args.limit)
         /\ steps <= Len(store)
         /\ Len(filterFiles(store, ret.args.searchQuery,
                            ret.args.offset + ret.args.limit)) <= steps
         /\ (ret.args.searchQuery = <<>>)
              => Len(filterFiles(store, <<>>, ret.args.offset + ret.args.limit)) = steps
         /\ Len(ret.list) <= ret.args.limit

\* a scan that was allowed three steps ran out of records after two, and one
\* that was allowed fewer steps than there are records exists in the same
\* store
C21_Witness ==
  /\ ret.op = "fetchFiles" /\ ret.error = ""
  /\ Len(store) = 2
  /\ ret.args.offset + ret.args.limit = 3
  /\ cursorSteps(store, 1, 3, 0) = 2
  /\ cursorSteps(store, 1, 1, 0) = 1
  /\ ret.list # <<>>

====
